---- MODULE Spec2Model ----
(***************************************************************************)
(* loco_factory: the define_factory! macro (src/src/lib.rs 21-152) and the *)
(* factories it is instantiated for.  For every entity the macro generates *)
(*   create_<entity>(db)            the one-call creation function         *)
(*   Create<Entity>Builder          new, one setter per field, create,     *)
(*                                  build (and Clone, by derive)           *)
(*   create_<entity>_builder()      = Create<Entity>Builder::new()          *)
(*   get_<entity>_id(db)            = create_<entity>(db).map(|s| s.id)     *)
(*                                                                         *)
(* The store (sea_orm::DatabaseConnection) is shared by all calls.  An     *)
(* async call is a sequence of steps; the store is touched by one insert   *)
(* at a time, and calls of different tasks interleave between their         *)
(* await points.                                                           *)
(*                                                                         *)
(* Values.  String is a TLA+ string, Uuid a natural number, bool a         *)
(* BOOLEAN, NaiveDate a triple, i32 an integer, Option<T> a sequence of    *)
(* length at most one (None = <<>>, Some(v) = <<v>>), ActiveValue::Set(v)  *)
(* the pair <<"Set", v>> and ActiveValue::NotSet the tuple <<"NotSet">>,   *)
(* Result Ok(v) / Err(e) the pairs <<"Ok", v>> / <<"Err", e>>.             *)
(***************************************************************************)
EXTENDS Integers, Sequences, FiniteSets, TLC

\* ------------------------------------------------------------------ bounds
MaxBuilders == 2      \* builder values made (new or clone) in a run that builds them
MaxSetterCalls == 2   \* setter calls made on the builder of a run that has one
MaxCalls == 2         \* concurrent one-call creations
MaxFaults == 1        \* inserts the store rejects in one run

\* What one run may do: how many builders it makes (new or clone), setter
\* calls, build() calls, builder create calls and one-call creations.
Budgets ==
    { \* builders, one of them overridden, that are cloned and built
      [builders |-> MaxBuilders, setters |-> 1, builds |-> MaxBuilders,
       creates |-> 0, onecalls |-> 0],
      \* one builder, overridden, then built or created
      [builders |-> 1, setters |-> MaxSetterCalls, builds |-> 1, creates |-> 1, onecalls |-> 0],
      \* a pair of builders (independent, or a base and its clone) created side by side
      [builders |-> 2, setters |-> 1, builds |-> 0, creates |-> 2, onecalls |-> 0],
      \* a builder built or created beside a one-call creation
      [builders |-> 1, setters |-> 1, builds |-> 1, creates |-> 1, onecalls |-> 1],
      \* concurrent one-call creations
      [builders |-> 0, setters |-> 0, builds |-> 0, creates |-> 0, onecalls |-> MaxCalls] }

Slots == 1..MaxBuilders
Calls == 1..MaxCalls

\* ---------------------------------------------------------------- entities
\* The three factories of the repository, and "referral": an instantiation
\* of the macro's lazy_fields repetition with two lazy fields (the
\* repository's own instantiations have at most one).
Entities == {"specialty", "doctor", "patient", "referral"}

\* fields: { $field: $field_type = $default, ... } in declaration order
StaticFields(e) ==
    CASE e = "specialty" -> <<"name", "description", "uuid", "is_active">>
      [] e = "doctor"    -> <<"first_name", "last_name", "email", "license_number",
                              "uuid", "phone", "is_active">>
      [] e = "patient"   -> <<"first_name", "last_name", "email", "date_of_birth",
                              "phone", "uuid", "address">>
      [] e = "referral"  -> <<"reason">>

\* lazy_fields: { $lazy_field: $lazy_type = $lazy_default, ... } in declaration order
LazyFields(e) ==
    CASE e = "doctor"   -> <<"specialty_id">>
      [] e = "referral" -> <<"specialty_id", "patient_id">>
      [] OTHER          -> <<>>

\* $lazy_default: the entity whose get_<entity>_id is the field's resolver
ResolverEntity(e, f) ==
    CASE f = "specialty_id" -> "specialty"
      [] f = "patient_id"   -> "patient"

Range(s) == {s[i] : i \in DOMAIN s}
StaticSet(e) == Range(StaticFields(e))
LazySet(e) == Range(LazyFields(e))
IndexOf(s, x) == CHOOSE i \in DOMAIN s : s[i] = x

\* the $default expressions that call Uuid::new_v4()
RandomFields(e) ==
    CASE e = "specialty" -> {"uuid"}
      [] e = "doctor"    -> {"email", "license_number", "uuid"}
      [] e = "patient"   -> {"email", "uuid"}
      [] e = "referral"  -> {}

\* $default of field f of entity e, u being the value Uuid::new_v4() returns
\* in it (unused by the constant defaults).  The licence number keeps the
\* first eight characters of the uuid, upper-cased.
DefaultExpr(e, f, u) ==
    CASE e = "specialty" /\ f = "name"           -> "Test Specialty"
      [] e = "specialty" /\ f = "description"    -> <<"Test Description">>
      [] e = "specialty" /\ f = "uuid"           -> u
      [] e = "specialty" /\ f = "is_active"      -> TRUE
      [] e = "doctor"    /\ f = "first_name"     -> "John"
      [] e = "doctor"    /\ f = "last_name"      -> "Doe"
      [] e = "doctor"    /\ f = "email"          -> "doctor_" \o ToString(u) \o "@example.com"
      [] e = "doctor"    /\ f = "license_number" -> "LIC" \o ToString(u)
      [] e = "doctor"    /\ f = "uuid"           -> u
      [] e = "doctor"    /\ f = "phone"          -> <<"+5511999999999">>
      [] e = "doctor"    /\ f = "is_active"      -> TRUE
      [] e = "patient"   /\ f = "first_name"     -> "Maria"
      [] e = "patient"   /\ f = "last_name"      -> "Silva"
      [] e = "patient"   /\ f = "email"          -> "patient_" \o ToString(u) \o "@example.com"
      [] e = "patient"   /\ f = "date_of_birth"  -> <<1990, 1, 1>>
      [] e = "patient"   /\ f = "phone"          -> "+5511988888888"
      [] e = "patient"   /\ f = "uuid"           -> u
      [] e = "patient"   /\ f = "address"        -> <<"Rua Teste, 123">>
      [] e = "referral"  /\ f = "reason"         -> "Routine"

\* (a generator that returns the same value at every draw)
NewV4Repeated(r) == 1

\* Uuid::new_v4(): the r-th value drawn in a run is r; two draws never agree.
NewV4(r) == r + 1

\* how many Uuid::new_v4() calls the defaults of the first i static fields make
DrawsUpTo(e, i) == Cardinality({j \in 1..i : StaticFields(e)[j] \in RandomFields(e)})
Draws(e) == DrawsUpTo(e, Len(StaticFields(e)))

\* The $default expressions of entity e evaluated in declaration order, r
\* uuids having been drawn before: field name -> value.
EvalDefaults(e, r) ==
    [f \in StaticSet(e) |->
        DefaultExpr(e, f, NewV4(r + DrawsUpTo(e, IndexOf(StaticFields(e), f)) - 1))]

\* ------------------------------------------------------------------ values
None == <<>>
Some(v) == <<v>>
Set(v) == <<"Set", v>>
NotSet == <<"NotSet">>
Ok(v) == <<"Ok", v>>
Err(x) == <<"Err", x>>
IsOk(r) == r[1] = "Ok"
IsErr(r) == r[1] = "Err"

\* sea_orm::DbErr values the store raises
DbErrs == {"Conn", "Exec"}

\* values a caller passes to the setter of a static field
SetterValues(e, f) ==
    CASE f \in {"name", "first_name", "last_name", "reason"} ->
             {"Cardiology", DefaultExpr(e, f, 0)}
      [] f \in {"description", "phone", "address"} /\ ~(e = "patient" /\ f = "phone") ->
             {None, DefaultExpr(e, f, 0)}
      [] f = "phone"          -> {"+5511977777777", DefaultExpr(e, f, 0)}
      [] f = "uuid"           -> {0}
      [] f = "is_active"      -> {FALSE, TRUE}
      [] f = "email"          -> {"carlos@example.com"}
      [] f = "license_number" -> {"LIC0"}
      [] f = "date_of_birth"  -> {<<1985, 5, 15>>, <<1990, 1, 1>>}

\* values a caller passes to the setter of a lazy field (an i32 identifier)
LazySetterValues == {1, 7}


\* ------------------------------------------------------------------- state
VARIABLES
    store,      \* table name -> sequence of rows (Model values), in insertion order
    rng,        \* number of Uuid::new_v4() values drawn so far
    builders,   \* slot -> None | Some(Create<Entity>Builder value)
    made,       \* number of builder values made so far (new or clone)
    nset,       \* number of setter calls made so far
    built,      \* slot -> None | outcome of build() on the builder of that slot
    calls,      \* call -> state of that create call
    started,    \* number of create calls begun so far
    hist,       \* slot -> what was done to the builder of that slot (history)
    limits      \* the budget of the run, one of Budgets; never changes

vars == <<store, rng, builders, made, nset, built, calls, started, hist, limits>>

Tables == {"specialty", "doctor", "patient", "referral"}

\* ----------------------------------------------------------------- builder
\* Create<Entity>Builder::new (also Default::default and create_<entity>_builder)
New(e, r) ==
    [entity |-> e,
     fields |-> EvalDefaults(e, r),
     lazy   |-> [f \in LazySet(e) |-> None]]

\* (a setter that returns self as it was)
StaticSetterIgnored(b, f, v) == b

\* pub fn $field(mut self, value) -> Self
StaticSetter(b, f, v) == [b EXCEPT !.fields[f] = v]

\* pub fn $lazy_field(mut self, value) -> Self
LazySetter(b, f, v) == [b EXCEPT !.lazy[f] = Some(v)]

\* (a clone that starts over from the constant defaults)
CloneAsNew(b) == [b EXCEPT !.fields = [f \in StaticSet(b.entity) |-> DefaultExpr(b.entity, f, 0)]]

\* #[derive(Clone)]: a field-by-field copy
Clone(b) == b

\* The ActiveModel literal: every static and lazy field given, the rest
\* (the primary key id) from ..Default::default(), which is NotSet.
ActiveModel(e, given) ==
    [f \in StaticSet(e) \cup LazySet(e) \cup {"id"} |->
        IF f \in DOMAIN given THEN given[f] ELSE NotSet]

\* (a create that wrote Set($default) as create_<entity> does, and so lost
\* the caller's values)
SelfFieldsAsDefaults(b) == [f \in StaticSet(b.entity) |-> Set(DefaultExpr(b.entity, f, 0))]

\* the static part of the literal in builder create and build: Set(self.$field)
SelfFields(b) == [f \in StaticSet(b.entity) |-> Set(b.fields[f])]

\* (a create_<entity> whose literal has drifted from new(): the first field
\* is left at String::default())
DefaultFieldsDrifted(e, r) ==
    [f \in StaticSet(e) |->
        Set(IF f = StaticFields(e)[1] THEN "" ELSE EvalDefaults(e, r)[f])]

\* the static part of the literal in create_<entity>: Set($default)
DefaultFields(e, r) == [f \in StaticSet(e) |-> Set(EvalDefaults(e, r)[f])]

ExpectMessage(f) == "lazy field '" \o f \o "' must be set when using build()"

\* the lazy fields of b that hold None, and the first of them in declaration order
UnsetLazy(b) == {i \in DOMAIN LazyFields(b.entity) : b.lazy[LazyFields(b.entity)[i]] = None}
FirstUnset(b) == LazyFields(b.entity)[CHOOSE i \in UnsetLazy(b) : \A j \in UnsetLazy(b) : i <= j]

\* (a build that fills an unset lazy field in: .unwrap_or_default())
BuildWithPlaceholder(b) ==
    <<"Ok", ActiveModel(b.entity,
              SelfFields(b) @@ [f \in LazySet(b.entity) |->
                                   Set(IF b.lazy[f] = None THEN 0 ELSE b.lazy[f][1])])>>

\* pub fn build(self) -> $active_model: expect() panics on the first lazy
\* field that is None, the literal being evaluated in declaration order.
Build(b) ==
    IF UnsetLazy(b) # {}
    THEN <<"Panic", ExpectMessage(FirstUnset(b))>>
    ELSE <<"Ok", ActiveModel(b.entity,
                   SelfFields(b) @@ [f \in LazySet(b.entity) |-> Set(b.lazy[f][1])])>>

\* ------------------------------------------------------------------- store
\* (a table that numbers its rows from zero)
NextIdFromZero(table) == Len(table)

\* ActiveModel::insert on an accepting store: the primary key is assigned by
\* the table (INTEGER PRIMARY KEY AUTOINCREMENT, no row is ever deleted) and
\* every Set value is stored as given.
NextId(table) == Len(table) + 1
RowOf(table, active) ==
    [f \in DOMAIN active |-> IF active[f] = NotSet THEN NextId(table) ELSE active[f][2]]

Ids(table) == {table[i].id : i \in DOMAIN table}

\* Entity::find_by_id(id).one(db): the rows of the table with that primary key
FindById(table, id) == {table[i] : i \in {j \in DOMAIN table : table[j].id = id}}

\* ------------------------------------------------------------------- calls
\* History of a builder: its entity, the defaults new() gave it, the setter
\* calls made on it in order (<<field, value>>, those made on the builder it
\* was cloned from included), and the slot its value was first made in by new().
NoHistory == [entity |-> "none", defaults |-> <<>>, setters |-> <<>>, origin |-> 0]

\* the fields a sequence of setter calls overrides, and the value each ends with
Overridden(setters) == {setters[i][1] : i \in DOMAIN setters}
LastSet(setters, f) ==
    setters[CHOOSE i \in DOMAIN setters :
               /\ setters[i][1] = f
               /\ \A j \in DOMAIN setters : setters[j][1] = f => j <= i][2]

\* pc: "idle", "lazy" (before the li-th lazy field of the literal), "insert"
\* (before .insert(db)), "done" (returned: result holds Ok(model) or Err(e)).
\* given: the fields of the ActiveModel literal evaluated so far.
\* slot, defaults, history and ops are history: the slot the builder came
\* from, the defaults the call or its builder evaluated, the builder's
\* history, and the store operations the call has issued, in order:
\* <<"resolve", lazy field, Ok(id) | Err(e)>>, <<"insert", entity, Ok(id) | Err(e)>>.
Idle ==
    [pc |-> "idle", kind |-> "none", entity |-> "none", self |-> None,
     given |-> <<>>, li |-> 1, result |-> None,
     slot |-> 0, defaults |-> <<>>, history |-> NoHistory, ops |-> <<>>]

\* where a call goes once its lazy fields 1..li-1 are settled
AfterLazy(e, li) == IF li > Len(LazyFields(e)) THEN "insert" ELSE "lazy"

Init ==
    /\ store = [t \in Tables |-> <<>>]
    /\ rng = 0
    /\ builders = [s \in Slots |-> None]
    /\ made = 0
    /\ nset = 0
    /\ built = [s \in Slots |-> None]
    /\ calls = [c \in Calls |-> Idle]
    /\ started = 0
    /\ hist = [s \in Slots |-> NoHistory]
    /\ limits \in Budgets

\* inserts the store has rejected so far: a call ends at the first one it meets
Faults == Cardinality({c \in Calls : calls[c].pc = "done" /\ IsErr(calls[c].result[1])})
Started(kind) == Cardinality({c \in Calls : calls[c].kind = kind})
Builds == Cardinality({s \in Slots : built[s] # None})

Live(s) == builders[s] # None
The(s) == builders[s][1]
LiveSlots == {s \in Slots : Live(s)}

\* Create<Entity>Builder::new()
NewBuilder(e) ==
    /\ made < limits.builders
    /\ LET s == made + 1 IN
         /\ builders' = [builders EXCEPT ![s] = Some(New(e, rng))]
         /\ hist' = [hist EXCEPT ![s] = [entity |-> e, defaults |-> EvalDefaults(e, rng),
                                          setters |-> <<>>, origin |-> s]]
    /\ rng' = rng + Draws(e)
    /\ made' = made + 1
    /\ UNCHANGED <<store, nset, built, calls, started, limits>>

\* builder.$field(v)
CallStaticSetter(s, f, v) ==
    /\ Live(s)
    /\ nset < limits.setters
    /\ f \in StaticSet(The(s).entity)
    /\ v \in SetterValues(The(s).entity, f)
    /\ builders' = [builders EXCEPT ![s] = Some(StaticSetter(The(s), f, v))]
    /\ hist' = [hist EXCEPT ![s].setters = Append(@, <<f, v>>)]
    /\ nset' = nset + 1
    /\ UNCHANGED <<store, rng, made, built, calls, started, limits>>

\* builder.$lazy_field(v)
CallLazySetter(s, f, v) ==
    /\ Live(s)
    /\ nset < limits.setters
    /\ f \in LazySet(The(s).entity)
    /\ builders' = [builders EXCEPT ![s] = Some(LazySetter(The(s), f, v))]
    /\ hist' = [hist EXCEPT ![s].setters = Append(@, <<f, v>>)]
    /\ nset' = nset + 1
    /\ UNCHANGED <<store, rng, made, built, calls, started, limits>>

\* builder.clone()
CloneBuilder(s) ==
    /\ Live(s)
    /\ made < limits.builders
    /\ LET d == made + 1 IN
         /\ builders' = [builders EXCEPT ![d] = Some(Clone(The(s)))]
         /\ hist' = [hist EXCEPT ![d] = hist[s]]
    /\ made' = made + 1
    /\ UNCHANGED <<store, rng, nset, built, calls, started, limits>>

\* builder.build(): consumes the builder
CallBuild(s) ==
    /\ Live(s)
    /\ Builds < limits.builds
    /\ built' = [built EXCEPT ![s] = Some(Build(The(s)))]
    /\ builders' = [builders EXCEPT ![s] = None]
    /\ UNCHANGED <<store, rng, made, nset, calls, started, hist, limits>>


\* ------------------------------------------------------------ create calls
Outcomes == {"ok"} \cup DbErrs

\* model.insert(db).await on table tbl, the store answering `outcome`
Insert(tbl, active, outcome) ==
    IF outcome = "ok" THEN Ok(RowOf(tbl, active)) ELSE Err(outcome)

\* (a store that keeps no row of an insert it answered)
AfterNothingKept(tbl, res) == tbl

\* the rows of tbl after an insert that returned res
After(tbl, res) == IF IsOk(res) THEN Append(tbl, res[2]) ELSE tbl

\* create_<entity>(db) for an entity without lazy fields, as the resolvers
\* call it: the literal of the defaults, then the insert.
CreateNow(e, r, tbl, outcome) == Insert(tbl, ActiveModel(e, DefaultFields(e, r)), outcome)

\* get_<entity>_id: create_<entity>(db).await.map(|s| s.id)
MapId(res) == IF IsOk(res) THEN Ok(res[2].id) ELSE res

\* create_<entity>(db), up to its first await: the static fields of the
\* literal are Set($default)
BeginCreate(e) ==
    /\ Started("onecall") < limits.onecalls
    /\ LET c == started + 1 IN
         calls' = [calls EXCEPT ![c] =
                     [Idle EXCEPT !.pc = AfterLazy(e, 1), !.kind = "onecall", !.entity = e,
                                  !.given = DefaultFields(e, rng),
                                  !.defaults = EvalDefaults(e, rng)]]
    /\ rng' = rng + Draws(e)
    /\ started' = started + 1
    /\ UNCHANGED <<store, builders, made, nset, built, hist, limits>>

\* builder.create(db), up to its first await: consumes the builder; the
\* static fields of the literal are Set(self.$field)
BeginBuilderCreate(s) ==
    /\ Live(s)
    /\ Started("builder") < limits.creates
    /\ LET c == started + 1
           b == The(s) IN
         calls' = [calls EXCEPT ![c] =
                     [Idle EXCEPT !.pc = AfterLazy(b.entity, 1), !.kind = "builder",
                                  !.entity = b.entity, !.self = Some(b),
                                  !.given = SelfFields(b), !.slot = s,
                                  !.defaults = hist[s].defaults,
                                  !.history = hist[s]]]
    /\ builders' = [builders EXCEPT ![s] = None]
    /\ started' = started + 1
    /\ UNCHANGED <<store, rng, made, nset, built, hist, limits>>

\* (the lazy fields taken last to first)
LazyAtReversed(k) == LazyFields(k.entity)[Len(LazyFields(k.entity)) + 1 - k.li]

\* the lazy field the call is at
LazyAt(k) == LazyFields(k.entity)[k.li]

\* (a create that invokes the resolver whether or not a value was supplied)
HasOverrideNever(k) == FALSE

\* match self.$lazy_field { Some(val) => val, ... }: does the call hold a
\* caller-supplied value for the lazy field it is at?  create_<entity> holds none.
HasOverride(k) == k.kind = "builder" /\ k.self[1].lazy[LazyAt(k)] # None

\* the call once its current lazy field is Set(v)
LazySettled(k, v) ==
    [k EXCEPT !.given = (LazyAt(k) :> Set(v)) @@ @,
              !.li = @ + 1,
              !.pc = AfterLazy(k.entity, k.li + 1)]

\* Some(val) => val
TakeOverride(c) ==
    /\ calls[c].pc = "lazy"
    /\ HasOverride(calls[c])
    /\ calls' = [calls EXCEPT ![c] = LazySettled(@, calls[c].self[1].lazy[LazyAt(calls[c])][1])]
    /\ UNCHANGED <<store, rng, builders, made, nset, built, started, hist, limits>>

\* (a create that swallows the resolver's error: .unwrap_or_default())
AfterResolverSwallowed(k, res) ==
    LazySettled([k EXCEPT !.ops = Append(@, <<"resolve", LazyAt(k), res>>)],
                IF IsErr(res) THEN 0 ELSE res[2])

\* the call after `$lazy_default(db).await?` returned res for its current
\* lazy field: Err(e) returns Err(e) from the call, Ok(id) goes on
AfterResolver(k, res) ==
    LET logged == [k EXCEPT !.ops = Append(@, <<"resolve", LazyAt(k), res>>)] IN
    IF IsErr(res)
    THEN [logged EXCEPT !.pc = "done", !.result = Some(res)]
    ELSE LazySettled(logged, res[2])

\* None => $lazy_default(db).await?  (create_<entity>: always)
CallResolver(c, outcome) ==
    /\ calls[c].pc = "lazy"
    /\ ~HasOverride(calls[c])
    /\ outcome # "ok" => Faults < MaxFaults
    /\ LET re == ResolverEntity(calls[c].entity, LazyAt(calls[c]))
           created == CreateNow(re, rng, store[re], outcome) IN
         /\ store' = [store EXCEPT ![re] = After(@, created)]
         /\ rng' = rng + Draws(re)
         /\ calls' = [calls EXCEPT ![c] = AfterResolver(@, MapId(created))]
    /\ UNCHANGED <<builders, made, nset, built, started, hist, limits>>

\* (a create that tries the insert again when the store rejects it)
AfterInsertRetried(k, res) ==
    IF IsErr(res)
    THEN [k EXCEPT !.ops = Append(@, <<"insert", k.entity, res>>)]
    ELSE [k EXCEPT !.pc = "done", !.result = Some(res),
                   !.ops = Append(@, <<"insert", k.entity, MapId(res)>>)]

\* the call after `.insert(db).await` returned res: that is what it returns
AfterInsert(k, res) ==
    [k EXCEPT !.pc = "done", !.result = Some(res),
              !.ops = Append(@, <<"insert", k.entity, MapId(res)>>)]

\* Active { ... ..Default::default() }.insert(db).await
InsertModel(c, outcome) ==
    /\ calls[c].pc = "insert"
    /\ outcome # "ok" => Faults < MaxFaults
    /\ LET e == calls[c].entity
           res == Insert(store[e], ActiveModel(e, calls[c].given), outcome) IN
         /\ store' = [store EXCEPT ![e] = After(@, res)]
         /\ calls' = [calls EXCEPT ![c] = AfterInsert(@, res)]
    /\ UNCHANGED <<rng, builders, made, nset, built, started, hist, limits>>

Next ==
    \/ \E e \in Entities : NewBuilder(e)
    \/ \E s \in LiveSlots : \E f \in StaticSet(The(s).entity) :
          \E v \in SetterValues(The(s).entity, f) : CallStaticSetter(s, f, v)
    \/ \E s \in LiveSlots : \E f \in LazySet(The(s).entity) :
          \E v \in LazySetterValues : CallLazySetter(s, f, v)
    \/ \E s \in Slots : CloneBuilder(s)
    \/ \E s \in Slots : CallBuild(s)
    \/ \E e \in Entities : BeginCreate(e)
    \/ \E s \in Slots : BeginBuilderCreate(s)
    \/ \E c \in Calls : TakeOverride(c)
    \/ \E c \in Calls, outcome \in Outcomes : CallResolver(c, outcome)
    \/ \E c \in Calls, outcome \in Outcomes : InsertModel(c, outcome)

Spec == Init /\ [][Next]_vars


\* ---------------------------------------------------------------- reading
Finished(c) == calls[c].pc = "done"
Returned(c) == calls[c].result[1]
Succeeded(c) == Finished(c) /\ IsOk(Returned(c))
Failed(c) == Finished(c) /\ IsErr(Returned(c))
\* the persisted record a successful call returned
Model(c) == Returned(c)[2]

IsResolve(o) == o[1] = "resolve"
IsInsert(o) == o[1] = "insert"
\* the resolver invocations a call made for lazy field f, and its inserts
ResolveOps(k, f) == {i \in DOMAIN k.ops : IsResolve(k.ops[i]) /\ k.ops[i][2] = f}
InsertOps(k) == {i \in DOMAIN k.ops : IsInsert(k.ops[i])}
\* the identifier the resolver of lazy field f returned to the call
ResolvedId(k, f) == k.ops[CHOOSE i \in ResolveOps(k, f) : TRUE][3][2]

\* the setter calls made on the builder a call consumed (none for create_<entity>)
SettersOf(k) == k.history.setters
OverriddenIn(k) == Overridden(SettersOf(k))

\* C1. Override precedence: in the record a successful builder create
\* returns, every field (static or lazy) whose setter was called carries the
\* value of the last such call, whatever its default is; a static field
\* whose setter was never called carries the default new() evaluated, and a
\* lazy field whose setter was never called the identifier its resolver
\* returned.
C1_OverridePrecedence ==
    \A c \in Calls :
        (Succeeded(c) /\ calls[c].kind = "builder") =>
            LET k == calls[c] IN
            /\ \A f \in OverriddenIn(k) : Model(c)[f] = LastSet(SettersOf(k), f)
            /\ \A f \in StaticSet(k.entity) \ OverriddenIn(k) : Model(c)[f] = k.defaults[f]
            /\ \A f \in LazySet(k.entity) \ OverriddenIn(k) : Model(c)[f] = ResolvedId(k, f)

\* a builder whose setter for one static field was called twice with
\* different values, the last one not the default, has been created
C1_Witness ==
    \E c \in Calls :
        /\ Succeeded(c) /\ calls[c].kind = "builder"
        /\ Len(SettersOf(calls[c])) = 2
        /\ SettersOf(calls[c])[1][1] = SettersOf(calls[c])[2][1]
        /\ SettersOf(calls[c])[1][1] \in StaticSet(calls[c].entity)
        /\ SettersOf(calls[c])[1][2] # SettersOf(calls[c])[2][2]
        /\ SettersOf(calls[c])[2][2] # calls[c].defaults[SettersOf(calls[c])[2][1]]


\* the table a store operation of a call on entity e went to
TableOf(e, o) == IF IsResolve(o) THEN ResolverEntity(e, o[2]) ELSE o[2]
\* the operations of all calls that put a row into table t
RowsPut(t) ==
    UNION {{<<c, i>> : i \in {j \in DOMAIN calls[c].ops :
                                 /\ IsOk(calls[c].ops[j][3])
                                 /\ TableOf(calls[c].entity, calls[c].ops[j]) = t}} : c \in Calls}
\* every row of the store was put there by one resolver invocation or one insert
Accounted == \A t \in Tables : Len(store[t]) = Cardinality(RowsPut(t))

\* has the call got to lazy field number i of its literal (settled it, or
\* returned from it with the resolver's error)?
GotTo(k, i) == k.li > i \/ (k.li = i /\ k.pc = "done")

\* C2. An override short-circuits the resolver: a create call never invokes
\* the resolver of a lazy field whose setter was called, whatever state the
\* call is in, so the store holds no row on behalf of that field (every row
\* of every table is accounted for by a resolver invocation of an unset lazy
\* field or by a call's own insert); the resolver of an unset lazy field is
\* invoked exactly once when the call gets to that field, and not before.
C2_OverrideShortCircuits ==
    /\ \A c \in Calls :
          LET k == calls[c] IN
          k.kind # "none" =>
             \A i \in DOMAIN LazyFields(k.entity) :
                LET f == LazyFields(k.entity)[i] IN
                Cardinality(ResolveOps(k, f)) =
                    IF f \notin OverriddenIn(k) /\ GotTo(k, i) THEN 1 ELSE 0
    /\ Accounted

\* a doctor builder given the identifier of a specialty created before has
\* been created: the store holds that one specialty and no other
C2_Witness ==
    \E c, d \in Calls :
        /\ Succeeded(d) /\ calls[d].entity = "specialty"
        /\ Succeeded(c) /\ calls[c].entity = "doctor"
        /\ "specialty_id" \in OverriddenIn(calls[c])
        /\ Model(c).specialty_id = Model(d).id
        /\ Len(store["specialty"]) = 1 /\ Len(store["doctor"]) = 1

\* C3. A resolver failure aborts the whole call: once a resolver invoked by
\* a create call (one-call or builder) has returned an error, that
\* invocation is the call's last store operation, the call has returned that
\* same error, it has invoked no resolver of a later lazy field and issued
\* no insert of its own entity, and no row of the store is its own.
C3_ResolverFailureAborts ==
    /\ \A c \in Calls :
          LET k == calls[c] IN
          \A i \in DOMAIN k.ops :
             (IsResolve(k.ops[i]) /\ IsErr(k.ops[i][3])) =>
                /\ i = Len(k.ops)
                /\ Finished(c) /\ Returned(c) = k.ops[i][3]
                /\ InsertOps(k) = {}
                /\ \A j \in DOMAIN LazyFields(k.entity) :
                      j > k.li => ResolveOps(k, LazyFields(k.entity)[j]) = {}
    /\ Accounted

\* a create of an entity with two unset lazy fields has returned the error
\* of its first resolver
C3_Witness ==
    \E c \in Calls :
        /\ Failed(c) /\ calls[c].entity = "referral" /\ calls[c].li = 1
        /\ OverriddenIn(calls[c]) = {}
        /\ Len(calls[c].ops) = 1 /\ IsResolve(calls[c].ops[1])

\* the lazy fields of a call that no setter was called for, in declaration order
IsUnset(k, f) == f \notin OverriddenIn(k)
UnsetOf(k) == SelectSeq(LazyFields(k.entity), LAMBDA f : IsUnset(k, f))

\* C4. Lazy resolution ordering: the store operations of a create call are
\* the resolvers of its unset lazy fields, one after the other in
\* declaration order, each returned before the next is invoked, and then, all
\* of them having succeeded, the insert of the entity; the row every
\* successful resolver created is in the store from then on, so before the
\* next resolver and the insert; and the persisted record carries in each
\* such field the identifier its resolver returned (a default doctor: the
\* identifier of the specialty the call inserted first).
C4_LazyResolutionOrder ==
    \A c \in Calls :
        LET k == calls[c]
            n == Cardinality({i \in DOMAIN k.ops : IsResolve(k.ops[i])})
        IN
        k.kind # "none" =>
           /\ n <= Len(UnsetOf(k))
           /\ \A i \in 1..n : IsResolve(k.ops[i]) /\ k.ops[i][2] = UnsetOf(k)[i]
           /\ \A i \in 1..n : i < Len(k.ops) => IsOk(k.ops[i][3])
           /\ \A i \in InsertOps(k) : i = Len(k.ops) /\ n = Len(UnsetOf(k))
           /\ \A i \in 1..n :
                 IsOk(k.ops[i][3]) =>
                    k.ops[i][3][2] \in Ids(store[ResolverEntity(k.entity, k.ops[i][2])])
           /\ Succeeded(c) =>
                 /\ Len(k.ops) = Len(UnsetOf(k)) + 1
                 /\ \A i \in 1..n : Model(c)[k.ops[i][2]] = k.ops[i][3][2]
                 /\ Model(c) \in Range(store[k.entity])

\* a default create of an entity with two lazy fields has succeeded while
\* another call was inserting specialties too
C4_Witness ==
    \E c \in Calls :
        /\ Succeeded(c) /\ calls[c].entity = "referral" /\ calls[c].kind = "onecall"
        /\ Len(calls[c].ops) = 3
        /\ Model(c).specialty_id = 2 /\ Model(c).patient_id = 1


\* what the caller did to the builder build() was called on: were all its
\* lazy fields overridden, and the value it gave or left each field
AllLazySet(h) == LazySet(h.entity) \subseteq Overridden(h.setters)
Expected(h, f) == IF f \in Overridden(h.setters) THEN LastSet(h.setters, f) ELSE h.defaults[f]
\* the first lazy field, in declaration order, that no setter was called for
FirstMissing(h) ==
    LazyFields(h.entity)[CHOOSE i \in DOMAIN LazyFields(h.entity) :
        /\ LazyFields(h.entity)[i] \notin Overridden(h.setters)
        /\ \A j \in 1..(i - 1) : LazyFields(h.entity)[j] \in Overridden(h.setters)]

\* a step is a build() call
BuildStep == \E s \in Slots : built[s] = None /\ built'[s] # None

BuildReturnsOverridesAndDefaults ==
    \A s \in Slots :
        (built[s] # None /\ AllLazySet(hist[s])) =>
            /\ built[s][1][1] = "Ok"
            /\ \A f \in StaticSet(hist[s].entity) \cup LazySet(hist[s].entity) :
                  built[s][1][2][f] = Set(Expected(hist[s], f))
            /\ built[s][1][2]["id"] = NotSet

\* C5. Build-without-store safety: a build() step leaves the store (and
\* every create call in flight, and the uuid source) as it was, whatever the
\* store holds; and build() on a builder whose lazy fields were all
\* overridden returns Ok: an unsaved representation in which every static
\* and lazy field is Set to the last value its setter was given, or to the
\* default new() evaluated where no setter was called, and the primary key
\* is NotSet.
C5_BuildWithoutStore ==
    [][/\ BuildStep => (store' = store /\ calls' = calls /\ rng' = rng)
       /\ BuildReturnsOverridesAndDefaults']_vars

\* a doctor builder with specialty_id and a static field overridden has been
\* built while the store held rows
C5_Witness ==
    \E s \in Slots :
        /\ built[s] # None /\ built[s][1][1] = "Ok"
        /\ hist[s].entity = "doctor"
        /\ store["specialty"] # <<>>

\* C6. Fatal contract check: build() on a builder with at least one lazy
\* field no setter was called for ends in the panic of expect(), naming the
\* first such field, whichever other fields were overridden; it returns no
\* representation.
C6_BuildPanicsOnUnsetLazy ==
    \A s \in Slots :
        (built[s] # None /\ ~AllLazySet(hist[s])) =>
            built[s][1] = <<"Panic", ExpectMessage(FirstMissing(hist[s]))>>

\* a builder with one of its two lazy fields overridden, and a static field
\* too, has been built
C6_Witness ==
    \E s \in Slots :
        /\ built[s] # None /\ built[s][1][1] = "Panic"
        /\ hist[s].entity = "referral"
        /\ Overridden(hist[s].setters) = {"reason", "patient_id"}


\* the setter calls two builders of one family have in common: those made
\* before the clone() that parted them
SameCall(x, y) == x[1] = y[1] /\ x[2] = y[2]
Min(a, b) == IF a <= b THEN a ELSE b
CommonLen(a, b) ==
    CHOOSE n \in 0..Min(Len(a), Len(b)) :
        /\ \A i \in 1..n : SameCall(a[i], b[i])
        /\ n < Min(Len(a), Len(b)) => ~SameCall(a[n + 1], b[n + 1])
\* the fields overridden in the first n setter calls of a and in no later one
KeptFrom(a, n) == Overridden(SubSeq(a, 1, n)) \ Overridden(SubSeq(a, n + 1, Len(a)))

\* a step is a clone() into slot d: its value was first made in another slot
CloneStep(d) == builders[d] = None /\ builders'[d] # None /\ hist'[d].origin # d
\* a step is a setter call on, or a create or build of, the builder of slot s
UseStep(s) == builders[s] # None /\ builders'[s] # builders[s]

ClonesPersistAlike ==
    \A c, d \in Calls :
        (/\ c # d /\ Succeeded(c) /\ Succeeded(d)
         /\ calls[c].kind = "builder" /\ calls[d].kind = "builder"
         /\ calls[c].history.origin = calls[d].history.origin) =>
            LET a == SettersOf(calls[c])
                b == SettersOf(calls[d])
                n == CommonLen(a, b)
            IN /\ Model(c).id # Model(d).id
               /\ \A f \in KeptFrom(a, n) \cap KeptFrom(b, n) :
                     /\ Model(c)[f] = LastSet(SubSeq(a, 1, n), f)
                     /\ Model(d)[f] = Model(c)[f]

\* C7. Builder reuse non-interference: clone() leaves the base as it was and
\* makes a builder equal to it; a setter call on, or the create or build of,
\* one builder changes no other builder; and two builders of one family (a
\* base and its clones), both persisted, give two records with distinct
\* identifiers that carry, in every field overridden before the clone and
\* not again after it, that same overridden value.
C7_BuilderReuse ==
    [][/\ \A d \in Slots :
             CloneStep(d) =>
                \E s \in Slots \ {d} :
                    /\ builders[s] # None /\ hist[s].origin = hist'[d].origin
                    /\ builders'[d] = builders[s]
                    /\ builders'[s] = builders[s]
       /\ \A s, t \in Slots : (UseStep(s) /\ t # s) => builders'[t] = builders[t]
       /\ ClonesPersistAlike']_vars

\* a base with one static override, not the default, and its clone have
\* both been persisted
C7_Witness ==
    \E c, d \in Calls :
        /\ c # d /\ Succeeded(c) /\ Succeeded(d)
        /\ calls[c].slot # calls[d].slot
        /\ calls[c].history.origin = calls[d].history.origin
        /\ Len(SettersOf(calls[c])) = 1 /\ SettersOf(calls[d]) = SettersOf(calls[c])
        /\ SettersOf(calls[c])[1][1] \in StaticSet(calls[c].entity)
        /\ SettersOf(calls[c])[1][2] # calls[c].defaults[SettersOf(calls[c])[1][1]]
        /\ Model(c)[SettersOf(calls[c])[1][1]] = SettersOf(calls[c])[1][2]

\* what the store answered a call, operation by operation, and what the
\* operations were
Answers(k) == [i \in DOMAIN k.ops |-> IF IsOk(k.ops[i][3]) THEN "ok" ELSE k.ops[i][3][2]]
Shape(k) == [i \in DOMAIN k.ops |-> <<k.ops[i][1], k.ops[i][2]>>]
\* the static fields whose $default is a constant
ConstantFields(e) == StaticSet(e) \ RandomFields(e)
\* a one-call creation c and the create of a builder d that is new() as it was made
OneCallAndDefaultBuilder(c, d) ==
    /\ calls[c].kind = "onecall" /\ calls[d].kind = "builder"
    /\ calls[c].entity = calls[d].entity
    /\ SettersOf(calls[d]) = <<>>

C9_AtMostOneInsert ==
    /\ \A c \in Calls :
          LET k == calls[c] IN
          /\ Cardinality(InsertOps(k)) <= 1
          /\ \A i \in InsertOps(k) :
                /\ i = Len(k.ops) /\ Finished(c)
                /\ IsErr(k.ops[i][3]) => Returned(c) = k.ops[i][3]
                /\ IsOk(k.ops[i][3]) =>
                      /\ Succeeded(c)
                      /\ Model(c).id = k.ops[i][3][2]
                      /\ Model(c) \in Range(store[k.entity])
          /\ Succeeded(c) => InsertOps(k) # {}
    /\ Accounted

\* the store has rejected the insert of a doctor whose resolver had
\* succeeded: the call returned the error, the doctors table is empty
C9_Witness ==
    \E c \in Calls :
        /\ Failed(c) /\ calls[c].entity = "doctor"
        /\ Len(calls[c].ops) = 2 /\ IsInsert(calls[c].ops[2])
        /\ Returned(c) = calls[c].ops[2][3]
        /\ store["doctor"] = <<>>

\* the fields of a call's record that were generated: random by default, and
\* no setter was called for them
Generated(k) == RandomFields(k.entity) \ OverriddenIn(k)

\* C10. Uniqueness of generated values: two successful create calls of one
\* entity, on different builder instances however obtained or through the
\* one-call function, carry different values in every randomly generated
\* field that neither overrode.
C10_GeneratedValuesUnique ==
    \A c, d \in Calls :
        (c # d /\ Succeeded(c) /\ Succeeded(d) /\ calls[c].entity = calls[d].entity) =>
            \A f \in Generated(calls[c]) \cap Generated(calls[d]) :
                Model(c)[f] # Model(d)[f]

\* the same, for calls whose builders are not a base and its clone
C10_UniqueUnlessCloned ==
    \A c, d \in Calls :
        (/\ c # d /\ Succeeded(c) /\ Succeeded(d) /\ calls[c].entity = calls[d].entity
         /\ ~(/\ calls[c].kind = "builder" /\ calls[d].kind = "builder"
              /\ calls[c].history.origin = calls[d].history.origin)) =>
            \A f \in Generated(calls[c]) \cap Generated(calls[d]) :
                Model(c)[f] # Model(d)[f]

\* the store rejected nothing the call asked of it
Accepted(k) == \A i \in DOMAIN k.ops : IsOk(k.ops[i][3])
\* two one-call creations of one entity
OneCallPair(c, d) ==
    /\ c # d
    /\ calls[c].kind = "onecall" /\ calls[d].kind = "onecall"
    /\ calls[c].entity = calls[d].entity
\* the fields in which the records two successful calls returned differ
Differing(c, d) == {f \in DOMAIN Model(c) : Model(c)[f] # Model(d)[f]}
\* the static fields whose default is generated at each call
UniquePerCall(e) == RandomFields(e)
\* call c, begun first, put each of its rows before call d put its row of
\* the same table, as when d is called after c has returned
Successive(c, d) ==
    /\ c < d
    /\ \A i \in DOMAIN calls[c].ops, j \in DOMAIN calls[d].ops :
          (/\ IsOk(calls[c].ops[i][3]) /\ IsOk(calls[d].ops[j][3])
           /\ TableOf(calls[c].entity, calls[c].ops[i]) = TableOf(calls[d].entity, calls[d].ops[j]))
              => calls[c].ops[i][3][2] < calls[d].ops[j][3][2]

\* C11 as stated. Determinism modulo declared randomness: two successive
\* one-call creations of one entity on a store that began empty and rejected
\* nothing both succeed, and their records differ only in the store-assigned
\* identifier and in the static fields whose default is generated per call.
C11_DifferOnlyInUniquePerCall ==
    \A c, d \in Calls :
        OneCallPair(c, d) =>
            /\ (Finished(c) /\ Accepted(calls[c])) => Succeeded(c)
            /\ (Succeeded(c) /\ Succeeded(d) /\ Successive(c, d)) =>
                  Differing(c, d) \subseteq {"id"} \cup UniquePerCall(calls[c].entity)

\* C11, amended. Two one-call creations of one entity on a store that began
\* empty, successive or interleaved: each succeeds when the store rejects
\* nothing it asks; their records carry the declared constant in every
\* static field with a constant default, and differ in exactly the
\* store-assigned identifier, the static fields whose default is generated
\* per call, and every lazy field, which holds the identifier of the row the
\* call's own resolver created.
C11_DeterminismModuloRandomness ==
    \A c, d \in Calls :
        OneCallPair(c, d) =>
            LET e == calls[c].entity IN
            /\ (Finished(c) /\ Accepted(calls[c])) => Succeeded(c)
            /\ (Succeeded(c) /\ Succeeded(d)) =>
                  /\ \A f \in ConstantFields(e) :
                        /\ Model(c)[f] = DefaultExpr(e, f, 0)
                        /\ Model(d)[f] = DefaultExpr(e, f, 0)
                  /\ Differing(c, d) = {"id"} \cup UniquePerCall(e) \cup LazySet(e)
                  /\ \A f \in LazySet(e) :
                        /\ Model(c)[f] = ResolvedId(calls[c], f)
                        /\ Model(d)[f] = ResolvedId(calls[d], f)

\* two default doctors have been created by the one-call function, the
\* store rejecting nothing: the second call began with a doctor and a
\* specialty in the store, and the two records name different specialties
C11_Witness ==
    \E c, d \in Calls :
        /\ OneCallPair(c, d) /\ Successive(c, d)
        /\ calls[c].entity = "doctor"
        /\ Succeeded(c) /\ Succeeded(d)
        /\ Accepted(calls[c]) /\ Accepted(calls[d])
        /\ Model(c).id = 1 /\ Model(d).id = 2
        /\ Model(c).first_name = "John" /\ Model(d).first_name = "John"
        /\ Model(c).specialty_id # Model(d).specialty_id

\* the identifier a successful store operation <<call, index>> was answered with
IdPut(o) == calls[o[1]].ops[o[2]][3][2]

\* what holds of a table once creates have been made: as many rows as
\* successful creates of the entity (create calls' own inserts and the
\* create_<entity> calls resolvers made), the i-th of them with identifier i;
\* each successful call's record has a positive identifier no other
\* successful create of the entity got, and find_by_id of it yields just
\* that record
RowsAreTheCreates(t) ==
    /\ Len(store[t]) = Cardinality(RowsPut(t))
    /\ \A i \in DOMAIN store[t] : store[t][i].id = i
    /\ \A o, q \in RowsPut(t) : o # q => IdPut(o) # IdPut(q)
    /\ \A c \in Calls :
          (Succeeded(c) /\ calls[c].entity = t) =>
              /\ Model(c).id > 0
              /\ FindById(store[t], Model(c).id) = {Model(c)}
              /\ \E i \in InsertOps(calls[c]) : <<c, i>> \in RowsPut(t) /\ IdPut(<<c, i>>) = Model(c).id

\* a step that changes table t adds one row at its end, with the identifier
\* that follows the last one given
NextRowFollows(t) ==
    store'[t] # store[t] =>
        /\ Len(store'[t]) = Len(store[t]) + 1
        /\ SubSeq(store'[t], 1, Len(store[t])) = store[t]
        /\ store'[t][Len(store'[t])].id =
              IF store[t] = <<>> THEN 1 ELSE store[t][Len(store[t])].id + 1

\* C12. Rows and identifiers: on a store that began empty, after any steps,
\* the table of every entity (those without lazy fields are the claim's
\* case) holds exactly one row per successful create of that entity,
\* one-call or builder; each returned record has a positive identifier
\* distinct from those of all other creates; each create that succeeds gets
\* the identifier following the previous one (1, 2, 3, ...); and looking a
\* returned identifier up in the store yields the returned record.
C12_RowsAndIdentifiers ==
    [][\A t \in Tables : RowsAreTheCreates(t)' /\ NextRowFollows(t)]_vars

\* a specialty made by the one-call function and one made by a builder with
\* an overridden name both succeeded: two rows, identifiers 1 and 2, each
\* found in the store as returned
C12_Witness ==
    \E c, d \in Calls :
        /\ calls[c].entity = "specialty" /\ calls[d].entity = "specialty"
        /\ calls[c].kind = "onecall" /\ calls[d].kind = "builder"
        /\ "name" \in OverriddenIn(calls[d])
        /\ Succeeded(c) /\ Succeeded(d)
        /\ Len(store["specialty"]) = 2
        /\ {Model(c).id, Model(d).id} = {1, 2}
        /\ FindById(store["specialty"], Model(d).id) = {Model(d)}

\* the resolver invocations of all calls, as <<call, index>>
Resolves == UNION {{<<c, i>> : i \in {j \in DOMAIN calls[c].ops : IsResolve(calls[c].ops[j])}} : c \in Calls}
\* the table the resolver of an invocation inserts into, and what it returned
ResolverTable(o) == ResolverEntity(calls[o[1]].entity, calls[o[1]].ops[o[2]][2])
ResolverResult(o) == calls[o[1]].ops[o[2]][3]

\* the row of every resolver invocation that succeeded is in the store,
\* however far its call got and however it ended: a row of the resolver's
\* entity with the identifier the resolver returned and the entity's
\* constant defaults
ResolverRowsKept ==
    \A o \in Resolves :
        IsOk(ResolverResult(o)) =>
            /\ Cardinality(FindById(store[ResolverTable(o)], ResolverResult(o)[2])) = 1
            /\ \A r \in FindById(store[ResolverTable(o)], ResolverResult(o)[2]) :
                  \A f \in ConstantFields(ResolverTable(o)) :
                      r[f] = DefaultExpr(ResolverTable(o), f, 0)

\* a step in which a call invokes a resolver adds one row to the resolver's
\* table when the resolver succeeds and none when it fails; no step removes
\* or changes a row
ResolverAddsOneRow ==
    /\ \A t \in Tables :
          /\ Len(store'[t]) >= Len(store[t])
          /\ SubSeq(store'[t], 1, Len(store[t])) = store[t]
    /\ \A c \in Calls :
          (/\ Len(calls'[c].ops) = Len(calls[c].ops) + 1
           /\ IsResolve(calls'[c].ops[Len(calls'[c].ops)])) =>
              LET o == <<c, Len(calls'[c].ops)>>
                  t == ResolverEntity(calls'[c].entity, calls'[c].ops[o[2]][2])
                  res == calls'[c].ops[o[2]][3] IN
              Len(store'[t]) = Len(store[t]) + (IF IsOk(res) THEN 1 ELSE 0)

\* C13. Resolver side effects are not rolled back: the row a lazy resolver
\* inserted stays in the store when its create call fails afterwards (a
\* later resolver fails, or the store rejects the entity's own insert), and
\* ever after; every resolver invocation that succeeds, so every default
\* doctor create whose get_specialty_id returns, adds one new row to the
\* resolver's table, and every row of the store is accounted for by such an
\* invocation or by a call's own insert.
C13_ResolverRowsNotRolledBack ==
    [][ResolverRowsKept' /\ Accounted' /\ ResolverAddsOneRow]_vars

\* the store rejected the insert of a default doctor: the call returned the
\* error, no doctor was stored, and the specialty get_specialty_id created
\* for it is still in the store
C13_Witness ==
    \E c \in Calls :
        /\ calls[c].entity = "doctor" /\ calls[c].kind = "onecall"
        /\ Failed(c)
        /\ IsOk(calls[c].ops[1][3]) /\ IsResolve(calls[c].ops[1])
        /\ IsErr(calls[c].ops[2][3]) /\ IsInsert(calls[c].ops[2])
        /\ store["doctor"] = <<>>
        /\ Len(store["specialty"]) = 1
        /\ store["specialty"][1].id = ResolvedId(calls[c], "specialty_id")

\* the same when a later resolver fails: the specialty made for a referral
\* stays though the patient could not be made
C13_LaterResolverFails ==
    \E c \in Calls :
        /\ calls[c].entity = "referral" /\ Failed(c)
        /\ Len(calls[c].ops) = 2
        /\ IsOk(calls[c].ops[1][3]) /\ IsErr(calls[c].ops[2][3]) /\ IsResolve(calls[c].ops[2])
        /\ Len(store["specialty"]) = 1 /\ store["patient"] = <<>>

====
